---- MODULE Spec2Model ----
(***************************************************************************)
(* Model of apps/sparsity/server.py: the connection extractors, the        *)
(* forward / backward circuit tracers and the two query handlers, over a   *)
(* loaded model whose MLP weights are immutable.                           *)
(*                                                                         *)
(* Weights are floats in the program; they are integers here.  Only sign,  *)
(* zero-ness, |w| order and the order of the products |w1|*|w2| matter to  *)
(* the code, and all of those are kept.                                    *)
(*                                                                         *)
(* Python lists are sequences (1-based here, 0-based ids are kept in the   *)
(* records).  A Python value that may be None is a record                  *)
(* [none, items]; see None / Some.                                         *)
(***************************************************************************)
EXTENDS Integers, Sequences, FiniteSets, TLC

VARIABLES model, resp

vars == <<model, resp>>

(* ------------------------------ bounds --------------------------------- *)
NumLayers == 3      \* len(model.circuit_model.transformer["h"])
MlpSize   == 3      \* c_fc.weight.shape[0]
DModel    == 2      \* c_proj.weight.shape[0]
MaxSeed   == 3      \* loaded models are WeightsOf(0) .. WeightsOf(MaxSeed)
MaxDepth  == 2      \* largest trace depth requested
MaxTopK   == 2      \* largest top_k requested

(* ------------------------------ helpers -------------------------------- *)
Abs(x) == IF x < 0 THEN -x ELSE x
Min(a, b) == IF a < b THEN a ELSE b
Max(a, b) == IF a < b THEN b ELSE a

\* The weight values a loaded model is built from: zeros (the model is
\* sparse), both signs, and equal magnitudes (2/-2, 1/-1) so that ties
\* occur.  Even seeds draw from Dense, odd seeds from Sparse.
Dense  == <<0, 2, -1, 0, 1, -2, 3>>
Sparse == <<0, 2, 0, 0, -1, 0, 1, 0, 0, -2, 3, 0, 0>>

\* Entry [i, j] of matrix `kind` (0 = c_fc, 1 = c_proj) of layer l in the
\* seed-th loaded model.  Seed 0 is the all-zero model.
Weight(seed, kind, l, i, j) ==
    LET vals == IF seed % 2 = 0 THEN Dense ELSE Sparse
    IN  vals[((seed * (2 * i + 3 * j + 5 * l + kind + 1)) % Len(vals)) + 1]

\* model.circuit_model.transformer["h"]: per layer, c_fc is [mlpSize, dModel]
\* and c_proj is [dModel, mlpSize].
WeightsOf(seed) ==
    [l \in 0..(NumLayers - 1) |->
        [c_fc   |-> [n \in 0..(MlpSize - 1) |->
                        [c \in 0..(DModel - 1) |-> Weight(seed, 0, l, n, c)]],
         c_proj |-> [c \in 0..(DModel - 1) |->
                        [n \in 0..(MlpSize - 1) |-> Weight(seed, 1, l, c, n)]]]]

get_layers == model
num_layers == Cardinality(DOMAIN get_layers)
\* tensor.shape[0]
Shape0(mat) == Cardinality(DOMAIN mat)
\* tensor.shape[1]
Shape1(mat) == Cardinality(DOMAIN mat[0])

\* Python / torch integer indexing into a dimension of size n: an index in
\* [-n, n) is accepted, a negative one counts from the end; anything else
\* raises IndexError.
IndexOK(i, n) == -n <= i /\ i < n
PyIndex(i, n) == IF i < 0 THEN i + n ELSE i

\* layers[layer_idx]
LayerAt(layer_idx) == get_layers[PyIndex(layer_idx, num_layers)]

\* Python s[:k]: a negative k drops the last -k elements.
SliceTo(s, k) ==
    SubSeq(s, 1, IF k < 0 THEN Max(Len(s) + k, 0) ELSE Min(k, Len(s)))

\* For each element of a list with these sort keys, its position after a
\* descending sort that puts equal keys in reverse index order.
RanksReversedTies(key) ==
    [i \in DOMAIN key |->
        Cardinality({j \in DOMAIN key :
            key[j] > key[i] \/ (key[j] = key[i] /\ j > i)}) + 1]

\* For each element of a list with these sort keys, its position after
\* list.sort(key=..., reverse=True): descending, and stable, so equal keys
\* keep their original relative order.
Ranks(key) ==
    [i \in DOMAIN key |->
        Cardinality({j \in DOMAIN key :
            key[j] > key[i] \/ (key[j] = key[i] /\ j < i)}) + 1]

\* the list s rearranged so that s[i] is at position rank[i]
Permute(s, rank) ==
    [p \in 1..Len(s) |-> s[CHOOSE i \in 1..Len(s) : rank[i] = p]]

\* key=lambda x: abs(x["weight"])
AbsWeightKeys(s) == [i \in 1..Len(s) |-> Abs(s[i].weight)]

\* sorted(lst, key=lambda x: abs(x["weight"]), reverse=True)[:top_k]
TopByAbsWeight(lst, top_k) ==
    SliceTo(Permute(lst, Ranks(AbsWeightKeys(lst))), top_k)

\* [(i, w) for i, w in enumerate(vec) if w != 0], from index i on.
RECURSIVE EnumNonzero(_, _)
EnumNonzero(vec, i) ==
    IF i >= Cardinality(DOMAIN vec) THEN <<>>
    ELSE (IF vec[i] # 0 THEN << <<i, vec[i]>> >> ELSE <<>>)
         \o EnumNonzero(vec, i + 1)

\* {"channel_id": i, "weight": w} / {"neuron_id": i, "weight": w}
AsChannels(e) ==
    [k \in 1..Len(e) |-> [channel_id |-> e[k][1], weight |-> e[k][2]]]
AsNeurons(e) ==
    [k \in 1..Len(e) |-> [neuron_id |-> e[k][1], weight |-> e[k][2]]]

ChannelList(vec) == AsChannels(EnumNonzero(vec, 0))
NeuronList(vec) == AsNeurons(EnumNonzero(vec, 0))

\* weight[i, :].tolist() and weight[:, j].tolist()
RowOf(mat, i) == mat[PyIndex(i, Shape0(mat))]
ColOf(mat, j) == [r \in DOMAIN mat |-> mat[r][PyIndex(j, Shape1(mat))]]

(* --------------------------- Connection Extractor ---------------------- *)
\* True iff the indexing of the call raises no IndexError.
NeuronIndexOK(layer_idx, neuron_idx) ==
    /\ IndexOK(layer_idx, num_layers)
    /\ IndexOK(neuron_idx, Shape0(LayerAt(layer_idx).c_fc))

ReaderIndexOK(layer_idx, channel_id) ==
    /\ IndexOK(layer_idx, num_layers)
    /\ IndexOK(channel_id, Shape1(LayerAt(layer_idx).c_fc))

WriterIndexOK(layer_idx, channel_id) ==
    /\ IndexOK(layer_idx, num_layers)
    /\ IndexOK(channel_id, Shape0(LayerAt(layer_idx).c_proj))

\* Variant: the two matrices swapped between `in` and `out`.
neuron_get_connected_reschannelsSwapped(layer_idx, neuron_idx) ==
    [in  |-> ChannelList(ColOf(LayerAt(layer_idx).c_proj, neuron_idx)),
     out |-> ChannelList(RowOf(LayerAt(layer_idx).c_fc, neuron_idx))]

neuron_get_connected_reschannels(layer_idx, neuron_idx) ==
    [in  |-> ChannelList(RowOf(LayerAt(layer_idx).c_fc, neuron_idx)),
     out |-> ChannelList(ColOf(LayerAt(layer_idx).c_proj, neuron_idx))]

\* Variant: the readers taken from c_proj (the writers' matrix).
find_neurons_reading_channelFromProj(layer_idx, channel_id, top_k) ==
    TopByAbsWeight(
        NeuronList(RowOf(LayerAt(layer_idx).c_proj, channel_id)), top_k)

find_neurons_reading_channel(layer_idx, channel_id, top_k) ==
    TopByAbsWeight(
        NeuronList(ColOf(LayerAt(layer_idx).c_fc, channel_id)), top_k)

find_neurons_writing_channel(layer_idx, channel_id, top_k) ==
    TopByAbsWeight(
        NeuronList(RowOf(LayerAt(layer_idx).c_proj, channel_id)), top_k)

(* ------------------------------ Circuit Tracer ------------------------- *)
\* A value that may be None.  trace_from_neuron returns None or a list.
None == [none |-> TRUE, items |-> <<>>]
Some(s) == [none |-> FALSE, items |-> s]
\* `x or []`: None and the empty list both become [].
OrEmpty(x) == IF x.none \/ Len(x.items) = 0 THEN <<>> ELSE x.items

RECURSIVE Concat(_)
Concat(ss) == IF Len(ss) = 0 THEN <<>> ELSE Head(ss) \o Concat(Tail(ss))

\* range(a, b)
RangeUp(a, b) == [i \in 1..Max(b - a, 0) |-> a + i - 1]
\* range(a, -1, -1)
RangeDown(a) == [i \in 1..Max(a + 1, 0) |-> a - i + 1]

\* key=lambda x: abs(x["write_weight"]) * abs(x["read_weight"])
ProductKeys(s) ==
    [i \in 1..Len(s) |-> Abs(s[i].write_weight) * Abs(s[i].read_weight)]

\* The weight matrices neuron_get_connected_reschannels reads.
MatricesOfLayer(layer_idx) ==
    {<<PyIndex(layer_idx, num_layers), "c_fc">>,
     <<PyIndex(layer_idx, num_layers), "c_proj">>}

\* Variant: the last layer is not terminal (off by one).
FwdTerminalOffByOne(layer, remaining_depth) ==
    remaining_depth = 0 \/ layer >= num_layers

\* `if remaining_depth == 0 or layer >= num_layers - 1: return None`
FwdTerminal(layer, remaining_depth) ==
    remaining_depth = 0 \/ layer >= num_layers - 1

\* `if remaining_depth == 0 or layer <= 0: return None`
BwdTerminal(layer, remaining_depth) ==
    remaining_depth = 0 \/ layer <= 0

\* Variant: the depth budget is not spent.
NextDepthUnspent(remaining_depth) == remaining_depth

\* the depth handed to the recursive call
NextDepth(remaining_depth) == remaining_depth - 1

\* result.sort(key=product, reverse=True);
\* return result[: top_k * 2] if result else None
Cut(result, top_k) ==
    IF Len(result) = 0 THEN None
    ELSE Some(SliceTo(Permute(result, Ranks(ProductKeys(result))), top_k * 2))

\* What one frame of trace_from_neuron returns, [res, reads]: res is the
\* Python value, reads the set of <<layer, matrix>> the frame and the frames
\* below it have read (those of entries the cut discards included).
\* visited is the list of [entry, reads] appended by the loops, scanned the
\* matrices the frame itself has read.
Frame(visited, top_k, scanned) ==
    [res   |-> Cut([i \in 1..Len(visited) |-> visited[i].entry], top_k),
     reads |-> scanned \cup UNION {visited[i].reads : i \in 1..Len(visited)}]

\* the matrices the loops of a frame read: matrix `mat` of every layer
\* scanned, if there is a channel to scan for
Scanned(channels, other_layers, mat) ==
    {<<other_layers[x], mat>> :
        x \in IF Len(channels) = 0 THEN {} ELSE 1..Len(other_layers)}

RECURSIVE fwd_trace_from_neuron(_, _, _, _)
RECURSIVE bwd_trace_from_neuron(_, _, _, _)

\* result.append({...}) of the forward trace; sub is the frame of the
\* recursive call that computes "children"
FwdEntry(ch, next_layer, reader, sub) ==
    [entry |-> [layer        |-> next_layer,
                neuron       |-> reader.neuron_id,
                read_weight  |-> reader.weight,
                via_channel  |-> ch.channel_id,
                write_weight |-> ch.weight,
                children     |-> sub.res],
     reads |-> sub.reads]

\* `for reader in readers:`
FwdReaders(ch, next_layer, readers, remaining_depth, top_k) ==
    [r \in 1..Len(readers) |->
        FwdEntry(ch, next_layer, readers[r],
                 fwd_trace_from_neuron(next_layer, readers[r].neuron_id,
                                       NextDepth(remaining_depth), top_k))]

\* `for ch in out_channels: for next_layer in range(layer + 1, num_layers):`
FwdVisit(out_channels, next_layers, remaining_depth, top_k) ==
    Concat([c \in 1..Len(out_channels) |->
        Concat([x \in 1..Len(next_layers) |->
            FwdReaders(out_channels[c], next_layers[x],
                       find_neurons_reading_channel(
                           next_layers[x], out_channels[c].channel_id, top_k),
                       remaining_depth, top_k)])])

FwdExpand(layer, out_channels, next_layers, remaining_depth, top_k) ==
    Frame(FwdVisit(out_channels, next_layers, remaining_depth, top_k), top_k,
          MatricesOfLayer(layer) \cup Scanned(out_channels, next_layers, "c_fc"))

\* trace_circuit_forward.trace_from_neuron
fwd_trace_from_neuron(layer, neuron, remaining_depth, top_k) ==
    IF FwdTerminal(layer, remaining_depth)
    THEN [res |-> None, reads |-> {}]
    ELSE FwdExpand(layer,
             TopByAbsWeight(
                 neuron_get_connected_reschannels(layer, neuron).out, top_k),
             RangeUp(layer + 1, num_layers), remaining_depth, top_k)

\* result.append({...}) of the backward trace
BwdEntry(ch, prev_layer, writer, sub) ==
    [entry |-> [layer        |-> prev_layer,
                neuron       |-> writer.neuron_id,
                write_weight |-> writer.weight,
                via_channel  |-> ch.channel_id,
                read_weight  |-> ch.weight,
                parents      |-> sub.res],
     reads |-> sub.reads]

\* `for writer in writers:`
BwdWriters(ch, prev_layer, writers, remaining_depth, top_k) ==
    [w \in 1..Len(writers) |->
        BwdEntry(ch, prev_layer, writers[w],
                 bwd_trace_from_neuron(prev_layer, writers[w].neuron_id,
                                       NextDepth(remaining_depth), top_k))]

\* `for ch in in_channels: for prev_layer in range(layer - 1, -1, -1):`
BwdVisit(in_channels, prev_layers, remaining_depth, top_k) ==
    Concat([c \in 1..Len(in_channels) |->
        Concat([x \in 1..Len(prev_layers) |->
            BwdWriters(in_channels[c], prev_layers[x],
                       find_neurons_writing_channel(
                           prev_layers[x], in_channels[c].channel_id, top_k),
                       remaining_depth, top_k)])])

BwdExpand(layer, in_channels, prev_layers, remaining_depth, top_k) ==
    Frame(BwdVisit(in_channels, prev_layers, remaining_depth, top_k), top_k,
          MatricesOfLayer(layer) \cup Scanned(in_channels, prev_layers, "c_proj"))

\* trace_circuit_backward.trace_from_neuron
bwd_trace_from_neuron(layer, neuron, remaining_depth, top_k) ==
    IF BwdTerminal(layer, remaining_depth)
    THEN [res |-> None, reads |-> {}]
    ELSE BwdExpand(layer,
             TopByAbsWeight(
                 neuron_get_connected_reschannels(layer, neuron).in, top_k),
             RangeDown(layer - 1), remaining_depth, top_k)

\* The first frame is the only one that can raise: every deeper frame is
\* called with a layer from range() and a neuron id from enumerate().
FwdRaises(start_layer, start_neuron, depth) ==
    /\ ~FwdTerminal(start_layer, depth)
    /\ ~NeuronIndexOK(start_layer, start_neuron)

BwdRaises(start_layer, start_neuron, depth) ==
    /\ ~BwdTerminal(start_layer, depth)
    /\ ~NeuronIndexOK(start_layer, start_neuron)

\* `return trace_from_neuron(start_layer, start_neuron, depth) or []`
Returned(frame) ==
    [status |-> "ok", body |-> OrEmpty(frame.res), reads |-> frame.reads]

Raised == [status |-> "IndexError", body |-> <<>>, reads |-> {}]

trace_circuit_forward(start_layer, start_neuron, depth, top_k) ==
    IF FwdRaises(start_layer, start_neuron, depth) THEN Raised
    ELSE Returned(fwd_trace_from_neuron(start_layer, start_neuron, depth, top_k))

trace_circuit_backward(start_layer, start_neuron, depth, top_k) ==
    IF BwdRaises(start_layer, start_neuron, depth) THEN Raised
    ELSE Returned(bwd_trace_from_neuron(start_layer, start_neuron, depth, top_k))

(* ------------------------------ Query Service -------------------------- *)
\* What a handler leaves behind: [status, detail, body, reads, calls]; calls
\* lists the tracer / extractor calls it has made.
\* raise HTTPException(status_code=400,
\*                     detail=f"{what} must be between 0 and {hi}")
BadRequest(what, hi) ==
    [status |-> 400, detail |-> [what |-> what, lo |-> 0, hi |-> hi],
     body |-> <<>>, reads |-> {}, calls |-> <<>>]

NoDetail == [what |-> "", lo |-> 0, hi |-> 0]

\* Variant: neuron = mlp_size is let through (off by one).
NeuronOutOfRangeOffByOne(neuron, mlp_size) == neuron < 0 \/ neuron > mlp_size

\* `if neuron < 0 or neuron >= mlp_size`
NeuronOutOfRange(neuron, mlp_size) == neuron < 0 \/ neuron >= mlp_size

\* the return statement of get_neuron_connections; f and b are the two
\* traces
NeuronResponse(layer, neuron, f, b) ==
    [status |-> 200, detail |-> NoDetail,
     body   |-> [layer |-> layer, neuron |-> neuron,
                 trace_forward  |-> f.body,
                 trace_backward |-> b.body],
     reads  |-> f.reads \cup b.reads,
     calls  |-> <<"trace_circuit_forward", "trace_circuit_backward">>]

get_neuron_connections(layer, neuron, trace_depth, trace_k) ==
    IF layer < 0 \/ layer >= num_layers
    THEN BadRequest("Layer", num_layers - 1)
    ELSE IF NeuronOutOfRange(neuron, Shape0(get_layers[layer].c_fc))
    THEN BadRequest("Neuron index", Shape0(get_layers[layer].c_fc) - 1)
    ELSE NeuronResponse(layer, neuron,
             trace_circuit_forward(layer, neuron, trace_depth, trace_k),
             trace_circuit_backward(layer, neuron, trace_depth, trace_k))

\* Variant: the layer is entered whether or not its list is empty.
PutAlways(d, layer_idx, lst) == (layer_idx :> lst) @@ d

\* `if lst: d[layer_idx] = lst`
PutIfNonEmpty(d, layer_idx, lst) ==
    IF Len(lst) = 0 THEN d ELSE (layer_idx :> lst) @@ d

\* one iteration of `for layer_idx in range(num_layers)`; acc is
\* [readers_by_layer, writers_by_layer, calls]
ChannelStep(acc, layer_idx, readers, writers) ==
    [readers_by_layer |->
         PutIfNonEmpty(acc.readers_by_layer, layer_idx, readers),
     writers_by_layer |->
         PutIfNonEmpty(acc.writers_by_layer, layer_idx, writers),
     calls |-> acc.calls \o
         << <<"find_neurons_reading_channel", layer_idx>>,
            <<"find_neurons_writing_channel", layer_idx>> >>]

\* the loop from layer_idx on
RECURSIVE ChannelLoop(_, _, _, _)
ChannelLoop(layer_idx, channel_id, top_k, acc) ==
    IF layer_idx >= num_layers THEN acc
    ELSE ChannelLoop(layer_idx + 1, channel_id, top_k,
             ChannelStep(acc, layer_idx,
                 find_neurons_reading_channel(layer_idx, channel_id, top_k),
                 find_neurons_writing_channel(layer_idx, channel_id, top_k)))

\* the return statement of get_channel_connections; r is the loop's result
ChannelResponse(channel_id, r) ==
    [status |-> 200, detail |-> NoDetail,
     body   |-> [channel_id |-> channel_id,
                 readers_by_layer |-> r.readers_by_layer,
                 writers_by_layer |-> r.writers_by_layer],
     reads  |-> UNION {MatricesOfLayer(l) : l \in 0..(num_layers - 1)},
     calls  |-> r.calls]

get_channel_connections(channel_id, top_k) ==
    IF channel_id < 0 \/ channel_id >= Shape0(get_layers[0].c_proj)
    THEN BadRequest("Channel", Shape0(get_layers[0].c_proj) - 1)
    ELSE ChannelResponse(channel_id,
             ChannelLoop(0, channel_id, top_k,
                 [readers_by_layer |-> <<>>, writers_by_layer |-> <<>>,
                  calls |-> <<>>]))

(* ------------------------------ state machine -------------------------- *)
\* Arguments the calls are tried with: the valid range, both neighbours of
\* it, and one value below -size (where Python's negative indexing ends).
LayerArgs   == (-1..NumLayers) \cup {-NumLayers - 1}
NeuronArgs  == (-1..MlpSize) \cup {-MlpSize - 1}
ChannelArgs == (-1..DModel) \cup {-DModel - 1}
DepthArgs   == -1..MaxDepth
TopKArgs    == -1..MaxTopK

NoArgs == [layer |-> 0, neuron |-> 0, channel |-> 0, depth |-> 0, top_k |-> 0]
Idle == [op |-> "none", args |-> NoArgs, status |-> "none",
         detail |-> <<>>, body |-> <<>>, reads |-> {}, calls |-> <<>>]

\* the record of a finished call of an extractor or tracer: r is
\* [status, body, reads]
Called(op, args, r) ==
    [op |-> op, args |-> args, status |-> r.status, detail |-> <<>>,
     body |-> r.body, reads |-> r.reads, calls |-> <<>>]

\* the record of a served request: h is what the handler left behind
Served(op, args, h) ==
    [op |-> op, args |-> args, status |-> h.status, detail |-> h.detail,
     body |-> h.body, reads |-> h.reads, calls |-> h.calls]

\* lifespan(): the model is loaded before any request is served.
Init ==
    /\ model \in {WeightsOf(seed) : seed \in 0..MaxSeed}
    /\ resp = Idle

NeuronGetConnectedReschannels(layer_idx, neuron_idx) ==
    /\ resp.op = "none"
    /\ resp' = Called("neuron_get_connected_reschannels",
                   [NoArgs EXCEPT !.layer = layer_idx, !.neuron = neuron_idx],
                   IF NeuronIndexOK(layer_idx, neuron_idx)
                   THEN [status |-> "ok",
                         body |-> neuron_get_connected_reschannels(
                                      layer_idx, neuron_idx),
                         reads |-> MatricesOfLayer(layer_idx)]
                   ELSE [status |-> "IndexError",
                         body |-> [in |-> <<>>, out |-> <<>>],
                         reads |-> {}])
    /\ UNCHANGED model

FindNeuronsReadingChannel(layer_idx, channel_id, top_k) ==
    /\ resp.op = "none"
    /\ resp' = Called("find_neurons_reading_channel",
                   [NoArgs EXCEPT !.layer = layer_idx, !.channel = channel_id,
                                  !.top_k = top_k],
                   IF ReaderIndexOK(layer_idx, channel_id)
                   THEN [status |-> "ok",
                         body |-> find_neurons_reading_channel(
                                      layer_idx, channel_id, top_k),
                         reads |-> {<<PyIndex(layer_idx, num_layers), "c_fc">>}]
                   ELSE Raised)
    /\ UNCHANGED model

FindNeuronsWritingChannel(layer_idx, channel_id, top_k) ==
    /\ resp.op = "none"
    /\ resp' = Called("find_neurons_writing_channel",
                   [NoArgs EXCEPT !.layer = layer_idx, !.channel = channel_id,
                                  !.top_k = top_k],
                   IF WriterIndexOK(layer_idx, channel_id)
                   THEN [status |-> "ok",
                         body |-> find_neurons_writing_channel(
                                      layer_idx, channel_id, top_k),
                         reads |-> {<<PyIndex(layer_idx, num_layers), "c_proj">>}]
                   ELSE Raised)
    /\ UNCHANGED model

TraceCircuitForward(start_layer, start_neuron, depth, top_k) ==
    /\ resp.op = "none"
    /\ resp' = Called("trace_circuit_forward",
                   [NoArgs EXCEPT !.layer = start_layer,
                                  !.neuron = start_neuron,
                                  !.depth = depth, !.top_k = top_k],
                   trace_circuit_forward(start_layer, start_neuron,
                                         depth, top_k))
    /\ UNCHANGED model

TraceCircuitBackward(start_layer, start_neuron, depth, top_k) ==
    /\ resp.op = "none"
    /\ resp' = Called("trace_circuit_backward",
                   [NoArgs EXCEPT !.layer = start_layer,
                                  !.neuron = start_neuron,
                                  !.depth = depth, !.top_k = top_k],
                   trace_circuit_backward(start_layer, start_neuron,
                                          depth, top_k))
    /\ UNCHANGED model

\* GET /
Root ==
    /\ resp.op = "none"
    /\ resp' = [Idle EXCEPT !.op = "root", !.status = 200,
                    !.body = [status |-> "ok",
                              num_layers |-> num_layers,
                              mlp_size |-> Shape0(get_layers[0].c_fc),
                              d_model |-> Shape0(get_layers[0].c_proj)]]
    /\ UNCHANGED model

\* GET /neuron/{layer}/{neuron}
GetNeuronConnections(layer, neuron, trace_depth, trace_k) ==
    /\ resp.op = "none"
    /\ resp' = Served("get_neuron_connections",
                   [NoArgs EXCEPT !.layer = layer, !.neuron = neuron,
                                  !.depth = trace_depth, !.top_k = trace_k],
                   get_neuron_connections(layer, neuron, trace_depth, trace_k))
    /\ UNCHANGED model

\* GET /channel/{channel_id}
GetChannelConnections(channel_id, top_k) ==
    /\ resp.op = "none"
    /\ resp' = Served("get_channel_connections",
                   [NoArgs EXCEPT !.channel = channel_id, !.top_k = top_k],
                   get_channel_connections(channel_id, top_k))
    /\ UNCHANGED model

\* The call has returned (the response is serialized and discarded); the
\* next call can be made.  The loaded model is untouched.
Return ==
    /\ resp.op # "none"
    /\ resp' = Idle
    /\ UNCHANGED model

Next ==
    \/ \E l \in LayerArgs, n \in NeuronArgs :
           NeuronGetConnectedReschannels(l, n)
    \/ \E l \in LayerArgs, c \in ChannelArgs, k \in TopKArgs :
           FindNeuronsReadingChannel(l, c, k)
    \/ \E l \in LayerArgs, c \in ChannelArgs, k \in TopKArgs :
           FindNeuronsWritingChannel(l, c, k)
    \/ \E l \in LayerArgs, n \in NeuronArgs, d \in DepthArgs, k \in TopKArgs :
           TraceCircuitForward(l, n, d, k)
    \/ \E l \in LayerArgs, n \in NeuronArgs, d \in DepthArgs, k \in TopKArgs :
           TraceCircuitBackward(l, n, d, k)
    \/ Root
    \/ \E l \in LayerArgs, n \in NeuronArgs, d \in DepthArgs, k \in TopKArgs :
           GetNeuronConnections(l, n, d, k)
    \/ \E c \in ChannelArgs, k \in TopKArgs :
           GetChannelConnections(c, k)
    \/ Return

Spec == Init /\ [][Next]_vars

(* ======================= properties of the extractors ================== *)
Layers   == 0..(NumLayers - 1)
Neurons  == 0..(MlpSize - 1)
Channels == 0..(DModel - 1)

IsChannelOp == resp.op \in {"find_neurons_reading_channel",
                            "find_neurons_writing_channel"}
IsExtractorOp == IsChannelOp \/ resp.op = "neuron_get_connected_reschannels"

\* The weight between neuron n and channel c of layer l: the c_fc entry for
\* a reader, the c_proj entry for a writer.
InW(l, n, c)  == model[l].c_fc[n][c]
OutW(l, n, c) == model[l].c_proj[c][n]
ChanW(l, n, c) ==
    IF resp.op = "find_neurons_reading_channel" THEN InW(l, n, c)
    ELSE OutW(l, n, c)

\* neuron a ranks before neuron b: larger |weight|, ties by smaller index
RanksBefore(l, c, a, b) ==
    \/ Abs(ChanW(l, a, c)) > Abs(ChanW(l, b, c))
    \/ Abs(ChanW(l, a, c)) = Abs(ChanW(l, b, c)) /\ a < b

\* C1: for top_k >= 0 and in-range layer and channel, the readers / writers
\* list is exactly the first min(top_k, #nonzero) nonzero entries of the
\* channel's column / row in the order (|weight| descending, index
\* ascending): right length, every element a real nonzero entry, the
\* elements in rank order, and every nonzero entry left out ranks after
\* every element kept.
C1_TopKReadersWriters ==
    (IsChannelOp /\ resp.args.top_k >= 0
       /\ resp.args.layer \in Layers /\ resp.args.channel \in Channels)
    => LET l  == resp.args.layer
           c  == resp.args.channel
           r  == resp.body
           nz == {n \in Neurons : ChanW(l, n, c) # 0}
           kept == {r[i].neuron_id : i \in 1..Len(r)}
       IN  /\ resp.status = "ok"
           /\ Len(r) = Min(resp.args.top_k, Cardinality(nz))
           /\ \A i \in 1..Len(r) :
                 /\ r[i].neuron_id \in nz
                 /\ r[i].weight = ChanW(l, r[i].neuron_id, c)
           /\ \A i, j \in 1..Len(r) :
                 i < j => RanksBefore(l, c, r[i].neuron_id, r[j].neuron_id)
           /\ \A n \in nz \ kept : \A m \in kept : RanksBefore(l, c, m, n)

\* A readers call that truncates at a tie: the last entry kept and an
\* entry dropped have the same |weight|, so the index order decides.
C1_Witness ==
    /\ resp.op = "find_neurons_reading_channel"
    /\ resp.status = "ok"
    /\ resp.args.layer \in Layers /\ resp.args.channel \in Channels
    /\ resp.args.top_k >= 1
    /\ Len(resp.body) = resp.args.top_k
    /\ \E n \in Neurons :
           /\ n \notin {resp.body[i].neuron_id : i \in 1..Len(resp.body)}
           /\ Abs(InW(resp.args.layer, n, resp.args.channel)) =
                  Abs(resp.body[Len(resp.body)].weight)

\* C2: for top_k <= 0 the readers / writers list is empty and no error is
\* raised.
C2_NonPositiveTopKEmpty ==
    (IsChannelOp /\ resp.args.top_k <= 0
       /\ resp.args.layer \in Layers /\ resp.args.channel \in Channels)
    => (resp.status = "ok" /\ Len(resp.body) = 0)

\* C3: the three extractors fail whenever an index is outside its range,
\* negative indices included.
C3_OutOfRangeFails ==
    (IsExtractorOp
       /\ \/ resp.args.layer \notin Layers
          \/ resp.op = "neuron_get_connected_reschannels"
               /\ resp.args.neuron \notin Neurons
          \/ IsChannelOp /\ resp.args.channel \notin Channels)
    => resp.status = "IndexError"

\* C8: for an in-range (layer, neuron), `in` lists exactly the channels with
\* a nonzero c_fc[neuron, c], `out` exactly those with a nonzero
\* c_proj[c, neuron], each with that weight, in increasing channel order.
ExactNonzeroList(lst, l, n, W(_, _, _)) ==
    /\ {lst[i].channel_id : i \in 1..Len(lst)} =
           {c \in Channels : W(l, n, c) # 0}
    /\ \A i \in 1..Len(lst) : lst[i].weight = W(l, n, lst[i].channel_id)
    /\ \A i, j \in 1..Len(lst) :
           i < j => lst[i].channel_id < lst[j].channel_id

C8_ConnectionsOfNeuron ==
    (resp.op = "neuron_get_connected_reschannels"
       /\ resp.args.layer \in Layers /\ resp.args.neuron \in Neurons)
    => /\ resp.status = "ok"
       /\ ExactNonzeroList(resp.body.in, resp.args.layer,
                           resp.args.neuron, InW)
       /\ ExactNonzeroList(resp.body.out, resp.args.layer,
                           resp.args.neuron, OutW)

\* A neuron with both zero and nonzero weights on each side.
C8_Witness ==
    /\ resp.op = "neuron_get_connected_reschannels"
    /\ resp.status = "ok"
    /\ resp.args.layer \in Layers /\ resp.args.neuron \in Neurons
    /\ Len(resp.body.in) = 1 /\ resp.body.in[1].channel_id > 0
    /\ Len(resp.body.out) >= 1 /\ Len(resp.body.out) < DModel

(* ========================= properties of the tracer ==================== *)
\* The trace lists of the current response, each with its direction and
\* its start (layer, neuron): the result of a direct trace call, or the two
\* traces of an accepted GET /neuron request.
Traces ==
    IF resp.op = "trace_circuit_forward" /\ resp.status = "ok"
    THEN {[dir |-> "fwd", list |-> resp.body]}
    ELSE IF resp.op = "trace_circuit_backward" /\ resp.status = "ok"
    THEN {[dir |-> "bwd", list |-> resp.body]}
    ELSE IF resp.op = "get_neuron_connections" /\ resp.status = 200
    THEN {[dir |-> "fwd", list |-> resp.body.trace_forward],
          [dir |-> "bwd", list |-> resp.body.trace_backward]}
    ELSE {}

StartInRange == resp.args.layer \in Layers /\ resp.args.neuron \in Neurons

\* the nested list of an entry (children or parents); None counts as empty
Kids(e) == IF "children" \in DOMAIN e THEN e.children.items
           ELSE e.parents.items

Product(e) == Abs(e.write_weight) * Abs(e.read_weight)

\* The full candidate list of node (l, n), as a set: one candidate per kept
\* channel of the node, other layer in the trace direction, and kept
\* reader / writer of the channel in that layer.
Candidates(dir, l, n, k) ==
    LET conns == neuron_get_connected_reschannels(l, n)
        side  == IF dir = "fwd" THEN conns.out ELSE conns.in
        chans == TopByAbsWeight(side, k)
        others == IF dir = "fwd" THEN (l + 1)..(NumLayers - 1) ELSE 0..(l - 1)
        Ends(ch, o) == IF dir = "fwd"
                       THEN find_neurons_reading_channel(o, ch, k)
                       ELSE find_neurons_writing_channel(o, ch, k)
    IN  UNION {UNION {{[layer |-> o,
                        neuron |-> Ends(chans[i].channel_id, o)[j].neuron_id,
                        via_channel |-> chans[i].channel_id,
                        product |-> Abs(chans[i].weight)
                            * Abs(Ends(chans[i].channel_id, o)[j].weight)] :
                       j \in 1..Len(Ends(chans[i].channel_id, o))} :
                   o \in others} :
               i \in 1..Len(chans)}

AsCandidate(e) == [layer |-> e.layer, neuron |-> e.neuron,
                   via_channel |-> e.via_channel, product |-> Product(e)]

RECURSIVE CutHolds(_, _, _, _, _)
CutHolds(dir, l, n, k, lst) ==
    LET kept == {AsCandidate(lst[i]) : i \in 1..Len(lst)}
    IN  /\ Len(lst) <= Max(2 * k, 0)
        /\ \A i, j \in 1..Len(lst) :
               i < j => Product(lst[i]) >= Product(lst[j])
        /\ \A d \in Candidates(dir, l, n, k) \ kept :
               \A e \in kept : d.product <= e.product
        /\ \A i \in 1..Len(lst) :
               CutHolds(dir, lst[i].layer, lst[i].neuron, k, Kids(lst[i]))

\* C4: every list of a trace (top level and nested) is sorted by
\* non-increasing |write_weight| * |read_weight|, has at most 2 * top_k
\* entries (none when top_k <= 0), and no dropped candidate of its node has a strictly larger
\* product than a kept entry.
C4_RerankingCut ==
    StartInRange
    => \A t \in Traces :
           CutHolds(t.dir, resp.args.layer, resp.args.neuron,
                    resp.args.top_k, t.list)

\* the same, for the requests with top_k >= 0 only
C4_RerankingCutNonNegativeTopK ==
    (StartInRange /\ resp.args.top_k >= 0) => C4_RerankingCut

\* A forward trace with top_k >= 1 whose top-level cut drops candidates.
C4_CutBites ==
    /\ resp.op = "trace_circuit_forward" /\ resp.status = "ok"
    /\ StartInRange /\ resp.args.top_k >= 1
    /\ Len(resp.body) = 2 * resp.args.top_k
    /\ Cardinality(Candidates("fwd", resp.args.layer, resp.args.neuron,
                               resp.args.top_k)) > Len(resp.body)

\* C5: trace_circuit_forward returns [] when depth = 0 or the start layer is
\* the last layer, trace_circuit_backward when depth = 0 or the start layer
\* is 0, whatever the neuron, top_k and weights are (an out-of-range neuron
\* included), and no weight matrix is read.
C5_TerminalConditions ==
    /\ (resp.op = "trace_circuit_forward"
          /\ (resp.args.depth = 0 \/ resp.args.layer = NumLayers - 1))
       => (resp.status = "ok" /\ Len(resp.body) = 0 /\ resp.reads = {})
    /\ (resp.op = "trace_circuit_backward"
          /\ (resp.args.depth = 0 \/ resp.args.layer = 0))
       => (resp.status = "ok" /\ Len(resp.body) = 0 /\ resp.reads = {})
    /\ (resp.op = "get_neuron_connections" /\ resp.status = 200
          /\ (resp.args.depth = 0 \/ resp.args.layer = NumLayers - 1))
       => Len(resp.body.trace_forward) = 0
    /\ (resp.op = "get_neuron_connections" /\ resp.status = 200
          /\ (resp.args.depth = 0 \/ resp.args.layer = 0))
       => Len(resp.body.trace_backward) = 0

\* A forward trace from the last layer with a positive depth, a positive
\* top_k and a neuron index no matrix has: it returns [] all the same.
C5_Witness ==
    /\ resp.op = "trace_circuit_forward"
    /\ resp.args.layer = NumLayers - 1
    /\ resp.args.depth > 0 /\ resp.args.top_k > 0
    /\ resp.args.neuron = MlpSize
    /\ \E n \in Neurons, c \in Channels : OutW(NumLayers - 1, n, c) # 0
    /\ resp.status = "ok" /\ Len(resp.body) = 0

\* number of nesting levels of a trace list
RECURSIVE Height(_)
Height(lst) ==
    IF Len(lst) = 0 THEN 0
    ELSE LET hs == {Height(Kids(lst[i])) : i \in 1..Len(lst)}
         IN  1 + (CHOOSE h \in hs : \A g \in hs : g <= h)

\* every entry lies strictly further in the trace direction than its node
RECURSIVE Advances(_, _, _)
Advances(dir, l, lst) ==
    \A i \in 1..Len(lst) :
        /\ IF dir = "fwd" THEN lst[i].layer > l /\ lst[i].layer < NumLayers
           ELSE lst[i].layer < l /\ lst[i].layer >= 0
        /\ Advances(dir, lst[i].layer, Kids(lst[i]))

\* the layers left in the trace direction
LayersLeft(dir, l) == IF dir = "fwd" THEN NumLayers - 1 - l ELSE l

\* C9: a trace from an in-range start completes for every integer depth
\* (negative ones included), every entry is in a strictly later (forward) /
\* earlier (backward) layer than its node, and the tree has at most
\* min(depth, layers left) nesting levels when depth >= 0 (at most `layers
\* left` when depth < 0).
C9_BoundedNesting ==
    (StartInRange /\ resp.op \in {"trace_circuit_forward",
                                  "trace_circuit_backward",
                                  "get_neuron_connections"})
    => /\ IF resp.op = "get_neuron_connections" THEN resp.status = 200
          ELSE resp.status = "ok"
       /\ \A t \in Traces :
             /\ Advances(t.dir, resp.args.layer, t.list)
             /\ Height(t.list) <= LayersLeft(t.dir, resp.args.layer)
             /\ resp.args.depth >= 0 => Height(t.list) <= resp.args.depth

\* A forward trace with depth 1 from layer 0 of a model in which a deeper
\* trace would nest further: one level is returned.
C9_Witness ==
    /\ resp.op = "trace_circuit_forward" /\ resp.status = "ok"
    /\ StartInRange /\ resp.args.layer = 0 /\ resp.args.depth = 1
    /\ Height(resp.body) = 1
    /\ Height(trace_circuit_forward(0, resp.args.neuron, 2,
                                    resp.args.top_k).body) = 2

\* A backward trace with a negative depth that nests as deep as the layers
\* allow.
C9_WitnessNegativeDepth ==
    /\ resp.op = "trace_circuit_backward" /\ resp.status = "ok"
    /\ StartInRange /\ resp.args.depth < 0
    /\ Height(resp.body) = resp.args.layer /\ resp.args.layer >= 2

RECURSIVE RealEdges(_, _, _, _)
RealEdges(dir, l, n, lst) ==
    \A i \in 1..Len(lst) :
        LET e == lst[i]
        IN  /\ e.layer \in Layers /\ e.neuron \in Neurons
            /\ e.via_channel \in Channels
            /\ e.write_weight # 0 /\ e.read_weight # 0
            /\ IF dir = "fwd"
               THEN /\ e.layer > l
                    /\ e.write_weight = OutW(l, n, e.via_channel)
                    /\ e.read_weight = InW(e.layer, e.neuron, e.via_channel)
               ELSE /\ e.layer < l
                    /\ e.read_weight = InW(l, n, e.via_channel)
                    /\ e.write_weight = OutW(e.layer, e.neuron, e.via_channel)
            /\ RealEdges(dir, e.layer, e.neuron, Kids(e))

\* C10: every entry of a trace, at every nesting level, is a real two-hop
\* connection of its node (l, n) through e.via_channel: forward, e.layer > l,
\* write_weight = c_proj_l[via, n] # 0 and read_weight =
\* c_fc_{e.layer}[e.neuron, via] # 0; backward, e.layer < l, read_weight =
\* c_fc_l[n, via] # 0 and write_weight = c_proj_{e.layer}[via, e.neuron] # 0.
C10_EntriesAreRealConnections ==
    StartInRange
    => \A t \in Traces :
           RealEdges(t.dir, resp.args.layer, resp.args.neuron, t.list)

\* A forward trace with an entry that skips a layer and an entry with a
\* non-empty nested list.
C10_Witness ==
    /\ resp.op = "trace_circuit_forward" /\ resp.status = "ok"
    /\ StartInRange
    /\ \E i \in 1..Len(resp.body) : resp.body[i].layer > resp.args.layer + 1
    /\ \E i \in 1..Len(resp.body) : Len(Kids(resp.body[i])) > 0

(* ====================== properties of the query service ================ *)
Rejected(what, hi) ==
    /\ resp.status = 400
    /\ resp.detail = [what |-> what, lo |-> 0, hi |-> hi]
    /\ resp.calls = <<>>
    /\ resp.reads = {}

\* C6: GET /neuron answers 400 with the valid range in the message, and has
\* called no tracer and read no weight, when layer is outside
\* [0, numLayers) or neuron outside [0, mlpSize); GET /channel likewise when
\* channel_id is outside [0, dModel).  Otherwise the answer is 200 with the
\* complete body: both traces ran, or both extractors ran for every layer.
C6_ValidationPrecedesComputation ==
    /\ resp.op = "get_neuron_connections"
       => IF resp.args.layer \notin Layers
          THEN Rejected("Layer", NumLayers - 1)
          ELSE IF resp.args.neuron \notin Neurons
          THEN Rejected("Neuron index", MlpSize - 1)
          ELSE /\ resp.status = 200
               /\ resp.calls = <<"trace_circuit_forward",
                                 "trace_circuit_backward">>
               /\ DOMAIN resp.body = {"layer", "neuron", "trace_forward",
                                      "trace_backward"}
               /\ resp.body.layer = resp.args.layer
               /\ resp.body.neuron = resp.args.neuron
    /\ resp.op = "get_channel_connections"
       => IF resp.args.channel \notin Channels
          THEN Rejected("Channel", DModel - 1)
          ELSE /\ resp.status = 200
               /\ resp.body.channel_id = resp.args.channel
               /\ {resp.calls[i] : i \in 1..Len(resp.calls)} =
                      {"find_neurons_reading_channel",
                       "find_neurons_writing_channel"} \X Layers

\* GET /neuron with a valid layer and the first neuron index past the end:
\* rejected before any trace.
C6_Witness ==
    /\ resp.op = "get_neuron_connections"
    /\ resp.args.layer \in Layers /\ resp.args.neuron = MlpSize
    /\ resp.args.depth > 0 /\ resp.args.top_k > 0
    /\ resp.status = 400 /\ resp.calls = <<>>

\* C7: for a valid channel_id, readers_by_layer has exactly the layers with
\* a non-empty readers list as keys, each mapped to that list, and
\* writers_by_layer likewise for the writers, independently; a channel that
\* is zero in every layer gives two empty mappings.
C7_ByLayerMappings ==
    (resp.op = "get_channel_connections" /\ resp.args.channel \in Channels)
    => LET c == resp.args.channel
           k == resp.args.top_k
           R(l) == find_neurons_reading_channel(l, c, k)
           W(l) == find_neurons_writing_channel(l, c, k)
           rbl == resp.body.readers_by_layer
           wbl == resp.body.writers_by_layer
       IN  /\ resp.status = 200
           /\ DOMAIN rbl = {l \in Layers : Len(R(l)) > 0}
           /\ DOMAIN wbl = {l \in Layers : Len(W(l)) > 0}
           /\ \A l \in DOMAIN rbl : rbl[l] = R(l)
           /\ \A l \in DOMAIN wbl : wbl[l] = W(l)
           /\ (\A l \in Layers, n \in Neurons :
                   InW(l, n, c) = 0 /\ OutW(l, n, c) = 0)
              => (DOMAIN rbl = {} /\ DOMAIN wbl = {})

\* A channel that some layer reads but does not write, that another layer
\* writes, and that is neither read by all layers nor written by all.
C7_Witness ==
    /\ resp.op = "get_channel_connections" /\ resp.status = 200
    /\ resp.args.top_k > 0
    /\ DOMAIN resp.body.readers_by_layer # DOMAIN resp.body.writers_by_layer
    /\ DOMAIN resp.body.readers_by_layer \notin {{}, Layers}
    /\ DOMAIN resp.body.writers_by_layer # {}

====
